---- MODULE Spec2Model ----
(***************************************************************************)
(* Model of apps/sim/stores/sync-registry.ts: the lazy bootstrap of the    *)
(* sync managers.  The module-level variables initialized, initializing    *)
(* and managers are shared by every call; an initializeSyncManagers call   *)
(* runs to completion between its two await points (the DB fetch and the   *)
(* 500 ms timer), so each action below is one run-to-completion segment.   *)
(***************************************************************************)
EXTENDS Naturals, Integers, Sequences, FiniteSets, TLC

\* Number of call slots: how many initializeSyncManagers calls can be
\* in flight (or just returned) at the same time.
NumCalls == 2

Procs == 1..NumCalls

VARIABLES
  initialized,     \* sync-registry.ts:16
  initializing,    \* sync-registry.ts:17
  managers,        \* sync-registry.ts:18
  registry,        \* what isRegistryInitialized() reports (./workflows/sync)
  pc,              \* position of each call: "idle", "fetch" (line 54), "delay" (line 59)
  ret,             \* value the last call of each slot resolved to, "pending" while in flight
  stale,           \* history: resetSyncManagers ran since this in-flight call passed the guard
  count,           \* history: collaborator invocations and suspensions of the slot's current call
  afterReset,      \* history: no initializeSyncManagers call was made since the last reset
  last             \* history: the segment that produced this state

vars == <<initialized, initializing, managers, registry, pc, ret, stale,
          count, afterReset, last>>

workflowSync == "workflowSync"

BoolStr(b) == IF b THEN "true" ELSE "false"

Suspended(p) == pc[p] \in {"fetch", "delay"}

InFlight == {p \in Procs : Suspended(p)}

Snapshot ==
  [initialized |-> initialized, initializing |-> initializing, managers |-> managers]

ZeroCount == [fetch |-> 0, resetReg |-> 0, delay |-> 0, suspend |-> 0]

\* The record of a segment, before the segment fills in what it did.
Blank ==
  [op |-> "none", p |-> 0, guard |-> "n/a", local |-> "n/a", threw |-> "none",
   settled |-> "n/a", regSeen |-> "n/a", pre |-> Snapshot,
   inFlightFresh |-> \E q \in Procs : Suspended(q) /\ ~stale[q],
   inFlightAny |-> InFlight # {},
   firstAfterReset |-> afterReset, returned |-> FALSE,
   fetchInv |-> 0, resetInv |-> 0, result |-> "n/a"]

\* ---- external collaborators (./workflows/sync, ./sync-core) ----

isRegistryInitialized == registry

\* The registry readiness after resetRegistryInitialization() ran.
resetRegistryInitialization == FALSE

\* What a resetRegistryInitialization() call that throws leaves behind.
resetRegistryInitializationThrown == {registry, FALSE}

\* The registry readiness after fetchWorkflowsFromDB() settled.
fetchWorkflowsFromDB(populated) == IF populated THEN TRUE ELSE registry

\* ---- sync-registry.ts ----

GuardRejectsMutant == initializing

\* line 31: if (initialized || initializing)
GuardRejects == initialized \/ initializing

FinallyMutant(flag) == flag

\* lines 77-79: finally { initializing = false }
Finally(flag) == FALSE

LocalModeManagersMutant == <<>>

\* line 40: managers = [workflowSync]
LocalModeManagers == <<workflowSync>>

NeedsDelayMutant(reg) == TRUE

NeedsDelayNever(reg) == FALSE

\* line 57: if (!isRegistryInitialized())
NeedsDelay(reg) == ~reg

WaitAgainMutant(n) == ~isRegistryInitialized /\ n < 2

\* lines 57-63: the delay is an if, not a loop: after the timer the call goes on
WaitAgain(n) == FALSE

FetchErrorMutant == [initialized |-> initialized, ret |-> "false"]

FetchErrorClears == [initialized |-> FALSE, ret |-> "false"]

\* lines 68-73: the inner catch logs, then initialized = true; return true
FetchError == [initialized |-> TRUE, ret |-> "true"]

ResetStateMutant ==
  [initialized |-> FALSE, initializing |-> FALSE, managers |-> managers]

\* lines 100-102
ResetState ==
  [initialized |-> FALSE, initializing |-> FALSE, managers |-> <<>>]

RetryOnRejectMutant(n) == n < 2

\* lines 68-70: the inner catch only logs; the fetch is not attempted again
RetryOnReject(n) == FALSE

AwaitingFetchCancelled(p) == pc[p] = "fetch" /\ ~stale[p]

\* line 54: the call is suspended on the promise of fetchWorkflowsFromDB();
\* nothing in the module cancels the continuation
AwaitingFetch(p) == pc[p] = "fetch"

isSyncInitializedMutant == initialized

\* line 86
isSyncInitialized == initialized /\ isRegistryInitialized

getSyncManagers == managers

Init ==
  /\ initialized = FALSE
  /\ initializing = FALSE
  /\ managers = <<>>
  /\ registry \in BOOLEAN
  /\ pc = [p \in Procs |-> "idle"]
  /\ ret = [p \in Procs |-> "none"]
  /\ stale = [p \in Procs |-> FALSE]
  /\ count = [p \in Procs |-> ZeroCount]
  /\ afterReset = FALSE
  /\ last = Blank

\* lines 72-73, 77-79: initialized = true; return true; finally
Complete(p, result) ==
  /\ initialized' = result.initialized
  /\ initializing' = Finally(initializing)
  /\ pc' = [pc EXCEPT ![p] = "idle"]
  /\ ret' = [ret EXCEPT ![p] = result.ret]
  /\ stale' = [stale EXCEPT ![p] = FALSE]
  /\ UNCHANGED managers

\* lines 29-54: the call, up to its return or to the await of the fetch
initializeSyncManagers(p) ==
  /\ pc[p] = "idle"
  /\ afterReset' = FALSE
  /\ IF GuardRejects
       THEN /\ ret' = [ret EXCEPT ![p] = BoolStr(initialized)]
            /\ count' = [count EXCEPT ![p] = ZeroCount]
            /\ last' = [Blank EXCEPT !.op = "initialize", !.p = p,
                                     !.guard = "rejected", !.returned = TRUE]
            /\ UNCHANGED <<initialized, initializing, managers, registry, pc, stale>>
       ELSE \E local \in {"true", "false", "throw"} :
            \/ /\ local = "throw"
               /\ initializing' = Finally(TRUE)
               /\ ret' = [ret EXCEPT ![p] = "false"]
               /\ count' = [count EXCEPT ![p] = ZeroCount]
               /\ last' = [Blank EXCEPT !.op = "initialize", !.p = p,
                                        !.guard = "passed", !.local = local,
                                        !.threw = "isLocalStorageMode",
                                        !.returned = TRUE]
               /\ UNCHANGED <<initialized, managers, registry, pc, stale>>
            \/ /\ local = "true"
               /\ managers' = LocalModeManagers
               /\ initialized' = TRUE
               /\ initializing' = Finally(TRUE)
               /\ ret' = [ret EXCEPT ![p] = "true"]
               /\ count' = [count EXCEPT ![p] = ZeroCount]
               /\ last' = [Blank EXCEPT !.op = "initialize", !.p = p,
                                        !.guard = "passed", !.local = local,
                                        !.returned = TRUE]
               /\ UNCHANGED <<registry, pc, stale>>
            \/ /\ local = "false"
               /\ managers' = <<workflowSync>>
               /\ \/ /\ registry' \in resetRegistryInitializationThrown
                     /\ initializing' = Finally(TRUE)
                     /\ ret' = [ret EXCEPT ![p] = "false"]
                     /\ count' = [count EXCEPT ![p] = [ZeroCount EXCEPT !.resetReg = 1]]
                     /\ last' = [Blank EXCEPT !.op = "initialize", !.p = p,
                                              !.guard = "passed", !.local = local,
                                              !.threw = "resetRegistryInitialization",
                                              !.resetInv = 1, !.returned = TRUE]
                     /\ UNCHANGED <<initialized, pc, stale>>
                  \/ /\ registry' = resetRegistryInitialization
                     /\ initializing' = TRUE
                     /\ pc' = [pc EXCEPT ![p] = "fetch"]
                     /\ ret' = [ret EXCEPT ![p] = "pending"]
                     /\ stale' = [stale EXCEPT ![p] = FALSE]
                     /\ count' = [count EXCEPT ![p] =
                                    [fetch |-> 1, resetReg |-> 1, delay |-> 0, suspend |-> 1]]
                     /\ last' = [Blank EXCEPT !.op = "initialize", !.p = p,
                                              !.guard = "passed", !.local = local,
                                              !.resetInv = 1, !.fetchInv = 1]
                     /\ UNCHANGED initialized

\* lines 54-73: the fetch settled and the call resumes
ResumeAfterFetch(p) ==
  /\ AwaitingFetch(p)
  /\ \/ \* the promise rejected: lines 68-73
        /\ IF RetryOnReject(count[p].fetch)
             THEN /\ count' = [count EXCEPT ![p].fetch = @ + 1, ![p].suspend = @ + 1]
                  /\ last' = [Blank EXCEPT !.op = "fetchSettled", !.p = p,
                                           !.settled = "rejected", !.fetchInv = 1]
                  /\ UNCHANGED <<initialized, initializing, managers, pc, ret, stale>>
             ELSE /\ Complete(p, FetchError)
                  /\ last' = [Blank EXCEPT !.op = "fetchSettled", !.p = p,
                                           !.settled = "rejected", !.returned = TRUE]
                  /\ UNCHANGED count
        /\ UNCHANGED <<registry, afterReset>>
     \/ \* the promise resolved: lines 57-73
        \E populated \in BOOLEAN :
          LET reg == fetchWorkflowsFromDB(populated) IN
          /\ registry' = reg
          /\ IF NeedsDelay(reg)
               THEN /\ pc' = [pc EXCEPT ![p] = "delay"]
                    /\ count' = [count EXCEPT ![p].delay = @ + 1, ![p].suspend = @ + 1]
                    /\ last' = [Blank EXCEPT !.op = "fetchSettled", !.p = p,
                                             !.settled = "resolved",
                                             !.regSeen = BoolStr(reg)]
                    /\ UNCHANGED <<initialized, initializing, managers, ret, stale>>
               ELSE /\ Complete(p, [initialized |-> TRUE, ret |-> "true"])
                    /\ last' = [Blank EXCEPT !.op = "fetchSettled", !.p = p,
                                             !.settled = "resolved",
                                             !.regSeen = BoolStr(reg),
                                             !.returned = TRUE]
                    /\ UNCHANGED count
          /\ UNCHANGED afterReset

\* lines 59-73: the 500 ms timer fired and the call resumes
ResumeAfterDelay(p) ==
  /\ pc[p] = "delay"
  /\ IF WaitAgain(count[p].delay)
       THEN /\ count' = [count EXCEPT ![p].delay = @ + 1, ![p].suspend = @ + 1]
            /\ last' = [Blank EXCEPT !.op = "timerFired", !.p = p,
                                     !.regSeen = BoolStr(isRegistryInitialized)]
            /\ UNCHANGED <<initialized, initializing, managers, pc, ret, stale>>
       ELSE /\ Complete(p, [initialized |-> TRUE, ret |-> "true"])
            /\ last' = [Blank EXCEPT !.op = "timerFired", !.p = p,
                                     !.regSeen = BoolStr(isRegistryInitialized),
                                     !.returned = TRUE]
            /\ UNCHANGED count
  /\ UNCHANGED <<registry, afterReset>>

\* lines 99-104
resetSyncManagers ==
  /\ initialized' = ResetState.initialized
  /\ initializing' = ResetState.initializing
  /\ managers' = ResetState.managers
  /\ stale' = [p \in Procs |-> Suspended(p)]
  /\ afterReset' = TRUE
  /\ \/ /\ registry' = resetRegistryInitialization
        /\ last' = [Blank EXCEPT !.op = "reset", !.resetInv = 1, !.returned = TRUE]
     \/ /\ registry' \in resetRegistryInitializationThrown
        /\ last' = [Blank EXCEPT !.op = "reset", !.resetInv = 1,
                                 !.threw = "resetRegistryInitialization"]
  /\ UNCHANGED <<pc, ret, count>>

\* lines 85-87
CallIsSyncInitialized ==
  /\ last' = [Blank EXCEPT !.op = "isSyncInitialized", !.returned = TRUE,
                           !.result = BoolStr(isSyncInitialized)]
  /\ UNCHANGED <<initialized, initializing, managers, registry, pc, ret, stale,
                 count, afterReset>>

\* lines 92-94
CallGetSyncManagers ==
  /\ last' = [Blank EXCEPT !.op = "getSyncManagers", !.returned = TRUE,
                           !.result = BoolStr(getSyncManagers # <<>>)]
  /\ UNCHANGED <<initialized, initializing, managers, registry, pc, ret, stale,
                 count, afterReset>>

\* The registry becomes ready, or is cleared, by code outside this module.
RegistryChanges ==
  /\ registry' = ~registry
  /\ last' = [Blank EXCEPT !.op = "registry"]
  /\ UNCHANGED <<initialized, initializing, managers, pc, ret, stale, count, afterReset>>

Next ==
  \/ \E p \in Procs : initializeSyncManagers(p)
  \/ \E p \in Procs : ResumeAfterFetch(p)
  \/ \E p \in Procs : ResumeAfterDelay(p)
  \/ resetSyncManagers
  \/ CallIsSyncInitialized
  \/ CallGetSyncManagers
  \/ RegistryChanges

Spec == Init /\ [][Next]_vars

\* The promise of the fetch settles and the 500 ms timer fires: the event loop
\* then runs the continuation of the call.
Fairness ==
  \A p \in Procs : WF_vars(ResumeAfterFetch(p)) /\ WF_vars(ResumeAfterDelay(p))

FairSpec == Spec /\ Fairness

TypeOK ==
  /\ initialized \in BOOLEAN
  /\ initializing \in BOOLEAN
  /\ managers \in {<<>>, <<workflowSync>>}
  /\ registry \in BOOLEAN
  /\ pc \in [Procs -> {"idle", "fetch", "delay"}]
  /\ ret \in [Procs -> {"none", "pending", "true", "false"}]
  /\ stale \in [Procs -> BOOLEAN]
  /\ \A p \in Procs : Suspended(p) <=> ret[p] = "pending"

\* ---- claims ----

\* C1 (as stated): a call made while an earlier call is suspended, with no
\* reset since that earlier call passed the guard, returns false at once,
\* changes none of initialized/initializing/managers and invokes neither
\* fetchWorkflowsFromDB nor resetRegistryInitialization; a call that resumes
\* returns true.
C1_SecondCallReturnsFalse ==
  /\ (last.op = "initialize" /\ last.inFlightFresh) =>
       /\ last.guard = "rejected"
       /\ last.returned
       /\ ret[last.p] = "false"
       /\ Snapshot = last.pre
       /\ last.fetchInv = 0
       /\ last.resetInv = 0
  /\ (last.op \in {"fetchSettled", "timerFired"} /\ last.returned) =>
       ret[last.p] = "true"

\* C2 (as stated): under every interleaving of initializeSyncManagers and
\* resetSyncManagers with the suspension points, at most one
\* initializeSyncManagers call is past the guard and not yet returned.
C2_AtMostOneInFlight == Cardinality(InFlight) <= 1

\* C3: a call made when initialized is true and initializing is false returns
\* true, leaves initialized, initializing and managers as they were and
\* invokes neither fetchWorkflowsFromDB nor resetRegistryInitialization.
C3_AlreadyInitialized ==
  (last.op = "initialize" /\ last.pre.initialized /\ ~last.pre.initializing) =>
    /\ last.returned
    /\ ret[last.p] = "true"
    /\ Snapshot = last.pre
    /\ last.fetchInv = 0
    /\ last.resetInv = 0

C3_Witness ==
  /\ last.op = "initialize"
  /\ last.pre.initialized
  /\ ~last.pre.initializing
  /\ ret[last.p] = "true"

\* C4: in local storage mode a call that passes the guard returns true with
\* initialized = true, initializing = false and managers = [workflowSync],
\* and invokes neither fetchWorkflowsFromDB nor resetRegistryInitialization.
C4_LocalMode ==
  (last.op = "initialize" /\ last.guard = "passed" /\ last.local = "true") =>
    /\ last.returned
    /\ ret[last.p] = "true"
    /\ initialized
    /\ ~initializing
    /\ getSyncManagers = <<workflowSync>>
    /\ last.fetchInv = 0
    /\ last.resetInv = 0

C4_Witness ==
  /\ last.op = "initialize"
  /\ last.guard = "passed"
  /\ last.local = "true"
  /\ last.pre.managers = <<>>
  /\ getSyncManagers = <<workflowSync>>

\* C5: when the fetch rejects, the call still returns true with
\* initialized = true, and isSyncInitialized() then reports exactly what
\* isRegistryInitialized() reports.
C5_FetchRejected ==
  (last.op = "fetchSettled" /\ last.settled = "rejected") =>
    /\ last.returned
    /\ ret[last.p] = "true"
    /\ initialized
    /\ isSyncInitialized = isRegistryInitialized

C5_Witness ==
  /\ last.op = "fetchSettled"
  /\ last.settled = "rejected"
  /\ ret[last.p] = "true"
  /\ ~isSyncInitialized

\* C6: when isLocalStorageMode or resetRegistryInitialization throws inside
\* the outer try, the call returns false (it does not raise), initialized
\* stays false and initializing is false afterwards.
C6_OuterCatch ==
  (last.op = "initialize" /\ last.threw # "none") =>
    /\ last.returned
    /\ ret[last.p] = "false"
    /\ ~initialized
    /\ ~initializing

C6_Witness ==
  /\ last.op = "initialize"
  /\ last.threw = "resetRegistryInitialization"
  /\ ret[last.p] = "false"
  /\ ~initializing

\* C7: right after resetSyncManagers returns, from any state (also with a
\* call suspended): initialized = false, initializing = false,
\* getSyncManagers() is empty, isSyncInitialized() is false, and the reset
\* invoked resetRegistryInitialization once.
C7_AfterReset ==
  (last.op = "reset" /\ last.returned) =>
    /\ ~initialized
    /\ ~initializing
    /\ getSyncManagers = <<>>
    /\ ~isSyncInitialized
    /\ last.resetInv = 1

C7_Witness ==
  /\ last.op = "reset"
  /\ last.returned
  /\ last.inFlightAny
  /\ last.pre.initializing
  /\ last.pre.managers = <<workflowSync>>
  /\ getSyncManagers = <<>>

\* C8 (as stated): from every reachable state, the first
\* initializeSyncManagers call made after a resetSyncManagers call passes the
\* guard and runs the sequence again: in non-local mode it invokes
\* resetRegistryInitialization and, unless that throws, fetchWorkflowsFromDB.
C8_FirstCallAfterResetRuns ==
  (last.op = "initialize" /\ last.firstAfterReset) =>
    /\ last.guard = "passed"
    /\ last.local = "false" =>
         /\ last.resetInv = 1
         /\ last.threw = "none" => last.fetchInv = 1

\* C9: when the fetch resolves and isRegistryInitialized() is false right
\* after it, the call suspends on the timer once; when the timer fires the
\* call returns true with initialized = true, having delayed exactly once,
\* whatever isRegistryInitialized() reports then.
C9_OneDelay ==
  /\ (last.op = "fetchSettled" /\ last.settled = "resolved" /\ last.regSeen = "false") =>
       /\ ~last.returned
       /\ pc[last.p] = "delay"
       /\ count[last.p].delay = 1
  /\ last.op = "timerFired" =>
       /\ last.returned
       /\ pc[last.p] = "idle"
       /\ ret[last.p] = "true"
       /\ initialized
       /\ count[last.p].delay = 1

C9_Witness ==
  /\ last.op = "timerFired"
  /\ last.returned
  /\ last.regSeen = "false"
  /\ ret[last.p] = "true"

\* C10: when the fetch resolves and isRegistryInitialized() is true right
\* after it, the call returns true with initialized = true, having suspended
\* once (on the fetch) and never on the timer.
C10_NoDelay ==
  (last.op = "fetchSettled" /\ last.settled = "resolved" /\ last.regSeen = "true") =>
    /\ last.returned
    /\ pc[last.p] = "idle"
    /\ ret[last.p] = "true"
    /\ initialized
    /\ count[last.p].suspend = 1
    /\ count[last.p].delay = 0

C10_Witness ==
  /\ last.op = "fetchSettled"
  /\ last.settled = "resolved"
  /\ last.regSeen = "true"
  /\ last.returned
  /\ count[last.p].suspend = 1

InitializeOps == {"initialize", "fetchSettled", "timerFired"}

\* C11: isSyncInitialized() returns true exactly when initialized is true and
\* isRegistryInitialized() is true; isSyncInitialized() and getSyncManagers()
\* change none of initialized/initializing/managers and invoke neither
\* fetchWorkflowsFromDB nor resetRegistryInitialization.
C11_PureQueries ==
  /\ last.op = "isSyncInitialized" =>
       (last.result = "true" <=> (initialized /\ registry))
  /\ last.op \in {"isSyncInitialized", "getSyncManagers"} =>
       /\ Snapshot = last.pre
       /\ last.fetchInv = 0
       /\ last.resetInv = 0

C11_Witness ==
  /\ last.op = "isSyncInitialized"
  /\ last.result = "false"
  /\ initialized
  /\ ~registry

\* C12: whenever a call that passed the guard returns, by any path (local
\* mode, normal completion, swallowed fetch error, escaping exception),
\* initializing is false right after the return.
C12_GuardCleared ==
  (last.op \in InitializeOps /\ last.returned /\ last.guard # "rejected") =>
    ~initializing

C12_Witness ==
  /\ last.op = "timerFired"
  /\ last.returned
  /\ last.pre.initializing
  /\ ~initializing

\* C13: under fairness of the fetch settling and the timer firing, every call
\* that passed the guard eventually returns, also when resetSyncManagers or
\* other calls run while it is suspended.
C13_EventuallyReturns ==
  \A p \in Procs : Suspended(p) ~> (pc[p] = "idle" /\ ret[p] \in {"true", "false"})

\* a call that was suspended across a reset has returned
C13_Witness ==
  /\ last.op = "timerFired"
  /\ last.returned
  /\ afterReset
  /\ ret[last.p] = "true"

\* C14 (as stated): after the fetch settled, in the swallowed-failure case as
\* in the success case, if isRegistryInitialized() is false the call waits
\* the delay before setting initialized = true and returning.
C14_DelayAfterAnySettlement ==
  (last.op = "fetchSettled" /\ ~isRegistryInitialized) =>
    /\ ~last.returned
    /\ pc[last.p] = "delay"
    /\ initialized = last.pre.initialized

\* C14 (amended): when the fetch resolves and isRegistryInitialized() is false
\* the call waits the delay before setting initialized = true and returning;
\* when the fetch rejects the call skips the check and the delay: it sets
\* initialized = true and returns true in the same segment.
C14_DelayOnlyAfterSuccess ==
  /\ (last.op = "fetchSettled" /\ last.settled = "resolved" /\ ~isRegistryInitialized) =>
       /\ ~last.returned
       /\ pc[last.p] = "delay"
       /\ initialized = last.pre.initialized
  /\ (last.op = "fetchSettled" /\ last.settled = "rejected") =>
       /\ last.returned
       /\ pc[last.p] = "idle"
       /\ count[last.p].delay = 0
       /\ initialized

C14_Witness ==
  /\ last.op = "fetchSettled"
  /\ last.settled = "rejected"
  /\ ~isRegistryInitialized
  /\ last.returned
  /\ count[last.p].delay = 0

\* C15 (as stated): a call that passes the guard in non-local mode invokes
\* fetchWorkflowsFromDB exactly once, a call rejected by the guard never.
C15_FetchExactlyOnce ==
  /\ (last.op = "initialize" /\ last.guard = "passed" /\ last.local = "false") =>
       /\ last.fetchInv = 1
       /\ count[last.p].fetch = 1
  /\ (last.op \in {"fetchSettled", "timerFired"}) =>
       /\ last.fetchInv = 0
       /\ count[last.p].fetch = 1
  /\ (last.op = "initialize" /\ last.guard = "rejected") =>
       /\ last.fetchInv = 0
       /\ count[last.p].fetch = 0

\* C15 (amended): a call that passes the guard in non-local mode and whose
\* resetRegistryInitialization() does not throw invokes fetchWorkflowsFromDB
\* exactly once (no retry after a rejection); a call rejected by the guard,
\* and one whose resetRegistryInitialization() throws, never invokes it.
C15_FetchOnceUnlessResetThrows ==
  /\ (last.op = "initialize" /\ last.guard = "passed" /\ last.local = "false"
        /\ last.threw = "none") =>
       /\ last.fetchInv = 1
       /\ count[last.p].fetch = 1
  /\ (last.op \in {"fetchSettled", "timerFired"}) =>
       /\ last.fetchInv = 0
       /\ count[last.p].fetch = 1
  /\ (last.op = "initialize" /\ (last.guard = "rejected" \/ last.threw # "none")) =>
       /\ last.fetchInv = 0
       /\ count[last.p].fetch = 0

C15_Witness ==
  /\ last.op = "fetchSettled"
  /\ last.settled = "rejected"
  /\ last.returned
  /\ count[last.p].fetch = 1

\* C16: once initialized is true it stays true across every step other than
\* resetSyncManagers: only resetSyncManagers takes it from true to false.
C16_OnlyResetClears ==
  (last.pre.initialized /\ ~initialized) => last.op = "reset"

\* a call resumes while initialized is already true, and leaves it true
C16_Witness ==
  /\ last.op = "timerFired"
  /\ last.pre.initialized
  /\ initialized

\* C17: in every state between segments (where a new call can enter),
\* initialized and initializing are never both true.
C17_NeverBoth == ~(initialized /\ initializing)

\* a call returned while another one, started after a reset, is in flight
C17_Witness ==
  /\ last.op = "fetchSettled"
  /\ last.returned
  /\ last.pre.initializing
  /\ InFlight # {}
  /\ initialized

\* C18 (as stated): in every state between segments, initialized = true
\* implies managers = [workflowSync].
C18_InitializedHasManagers == initialized => getSyncManagers = <<workflowSync>>

\* C19 (as stated): after resetSyncManagers, initialized stays false until an
\* initializeSyncManagers call issued after that reset sets it: as long as no
\* call was issued since the reset, initialized is false.
C19_StaysResetUntilNewCall == afterReset => ~initialized

\* C20: the boolean an initializeSyncManagers call returns equals initialized
\* at the moment the call returns, on every path and under every interleaving.
C20_ReturnsInitialized ==
  (last.op \in InitializeOps /\ last.returned) =>
    ret[last.p] = BoolStr(initialized)

\* a call rejected by the guard while another is in flight returns false
C20_Witness ==
  /\ last.op = "initialize"
  /\ last.guard = "rejected"
  /\ last.pre.initializing
  /\ ret[last.p] = "false"
  /\ ~initialized

====
